---- MODULE Spec2Model ----
(***************************************************************************)
(* Model of the audio-artifact subsystem of the retail location strategy   *)
(* pipeline: app/tools/audio_generator.py (generate_audio_overview, the    *)
(* tenacity retry wrapper around the TTS call, the WAV wrapper and the     *)
(* MIME sample-rate parser) and the three-member artifact fan-out of       *)
(* app/sub_agents/artifact_generation/agent.py.                            *)
(*                                                                         *)
(* Text is a sequence of one-character strings, bytes are 0..255, so that  *)
(* parsing, framing and base64 are computed and not assumed.               *)
(***************************************************************************)
EXTENDS Integers, Sequences, FiniteSets, TLC

\* ------------------------------------------------------------------------
\* Bounds of the model
\* ------------------------------------------------------------------------

\* Largest number of MIME parameters after "audio/L16".
MaxParams == 2

\* Largest raw PCM payload, in bytes.
MaxPayloadLen == 2

\* Invocations of generate_audio_overview in one behaviour.
MaxRuns == 2

\* Most transient failures the TTS service answers with before its final
\* answer (more than the retry policy ever asks for).
MaxFailures == 4

\* how far outside 0..100 the scores tried go
MaxExcess == 50

\* ------------------------------------------------------------------------
\* Text helpers (Python str operations used by the source)
\* ------------------------------------------------------------------------

None == "None"

\* the element of a one-element set.  Only({f(x) : x \in {e}}) is f(e) with
\* e evaluated once, however often f uses it
Only(S) == CHOOSE x \in S : TRUE

\* seq starts with pat at index i
MatchAt(s, pat, i) ==
    /\ i >= 1
    /\ i + Len(pat) - 1 <= Len(s)
    /\ SubSeq(s, i, i + Len(pat) - 1) = pat

\* str.find: least 1-based index of pat in s, 0 when absent
Find(s, pat) ==
    LET hits == {i \in 1..Len(s) : MatchAt(s, pat, i)}
    IN IF hits = {} THEN 0 ELSE CHOOSE i \in hits : \A j \in hits : i <= j

\* pat in s
Contains(s, pat) == Find(s, pat) # 0

\* s.split(pat)[0]
SplitHead(s, pat) ==
    LET i == Find(s, pat)
    IN IF i = 0 THEN s ELSE SubSeq(s, 1, i - 1)

\* s.split(pat)[1], for s containing pat: the text between the first
\* occurrence of pat and the next one (or the end of s)
SplitSecond(s, pat) ==
    Only({SplitHead(rest, pat) : rest \in {SubSeq(s, Find(s, pat) + Len(pat), Len(s))}})

Digits == <<"0", "1", "2", "3", "4", "5", "6", "7", "8", "9">>

IsDigit(c) == \E d \in 1..10 : Digits[d] = c

DigitVal(c) == (CHOOSE d \in 1..10 : Digits[d] = c) - 1

RECURSIVE LStrip(_)
LStrip(s) == IF s # <<>> /\ Head(s) \in {" ", "\t"} THEN LStrip(Tail(s)) ELSE s

RStrip(s) ==
    IF \A i \in 1..Len(s) : s[i] \in {" ", "\t"} THEN <<>>
    ELSE SubSeq(s, 1, CHOOSE i \in 1..Len(s) :
                          s[i] \notin {" ", "\t"} /\ \A j \in (i + 1)..Len(s) : s[j] \in {" ", "\t"})

\* the digit groups of a Python integer literal: digits, single underscores
\* only between digits
IsPyDigits(s) ==
    /\ s # <<>>
    /\ \A i \in 1..Len(s) : IsDigit(s[i]) \/ s[i] = "_"
    /\ IsDigit(s[1])
    /\ IsDigit(s[Len(s)])
    /\ \A i \in 1..(Len(s) - 1) : ~(s[i] = "_" /\ s[i + 1] = "_")

RECURSIVE DropZeros(_)
DropZeros(s) == IF Len(s) > 1 /\ Head(s) = "0" THEN DropZeros(Tail(s)) ELSE s

\* the decimal digits of a literal, underscores and leading zeros removed
Canonical(s) == DropZeros(SelectSeq(s, IsDigit))

\* int(text): [ok |-> FALSE] for ValueError, else the sign and the canonical
\* digits of the magnitude (Python integers are unbounded)
PyIntStripped(t) ==
    LET signed == t # <<>> /\ Head(t) \in {"+", "-"}
        body == IF signed THEN Tail(t) ELSE t
    IN IF IsPyDigits(body)
       THEN [ok |-> TRUE,
             neg |-> (signed /\ Head(t) = "-" /\ Canonical(body) # <<"0">>),
             digits |-> Canonical(body)]
       ELSE [ok |-> FALSE]

PyInt(text) == Only({PyIntStripped(t) : t \in {RStrip(l) : l \in {LStrip(text)}}})

\* a < b for canonical digit strings
RECURSIVE LexLess(_, _)
LexLess(a, b) ==
    IF a = <<>> THEN FALSE
    ELSE IF DigitVal(Head(a)) # DigitVal(Head(b))
         THEN DigitVal(Head(a)) < DigitVal(Head(b))
         ELSE LexLess(Tail(a), Tail(b))

DigitsLess(a, b) ==
    \/ Len(a) < Len(b)
    \/ Len(a) = Len(b) /\ LexLess(a, b)

RECURSIVE DigitsFrom(_, _)
DigitsFrom(s, n) ==
    IF n = 0 THEN 0 ELSE 10 * DigitsFrom(s, n - 1) + DigitVal(s[n])

DigitsToInt(s) == DigitsFrom(s, Len(s))

\* ------------------------------------------------------------------------
\* _parse_sample_rate_from_mime  (audio_generator.py:66-83)
\* ------------------------------------------------------------------------

RateKey == <<"r", "a", "t", "e", "=">>

\* A Python int: sign and canonical digits of the magnitude.
IntRec(neg, digits) == [neg |-> neg, digits |-> digits]

DefaultRate == IntRec(FALSE, <<"2", "4", "0", "0", "0">>)

\* a parser that forgets to cut the value at the next ";"
RateStr_Uncut(mime) == SplitSecond(mime, RateKey)

\* mime_type.split("rate=")[1].split(";")[0]
RateStr(mime) ==
    Only({SplitHead(rest, <<";">>) : rest \in {SplitSecond(mime, RateKey)}})

\* a parser that reads only a parameter named exactly "rate"
ParseSampleRate_NamedParameter(mime) ==
    IF Contains(mime, <<";">> \o RateKey)
    THEN Only({IF r.ok THEN IntRec(r.neg, r.digits) ELSE DefaultRate :
                 r \in {PyInt(text) :
                          text \in {SplitHead(rest, <<";">>) :
                                     rest \in {SplitSecond(mime, <<";">> \o RateKey)}}}})
    ELSE DefaultRate

ParseSampleRate(mime) ==
    IF Contains(mime, RateKey)
    THEN Only({IF r.ok THEN IntRec(r.neg, r.digits) ELSE DefaultRate :
                 r \in {PyInt(text) : text \in {RateStr(mime)}}})
    ELSE DefaultRate

\* ------------------------------------------------------------------------
\* _wrap_pcm_in_wav  (audio_generator.py:39-63), wave.Wave_write
\* ------------------------------------------------------------------------

Channels == 1

SampleWidth == 2

\* struct.pack("<L", ...) takes 0 .. 2^32-1; the byte rate 2 * rate is packed
\* so, hence the largest rate the header can carry is 2^31 - 1.
RateLimitDigits == <<"2", "1", "4", "7", "4", "8", "3", "6", "4", "8">>

IsPositive(r) == ~r.neg /\ r.digits # <<"0">>

FitsHeader(r) == DigitsLess(r.digits, RateLimitDigits)

LE16(n) == <<n % 256, (n \div 256) % 256>>

LE32(n) == <<n % 256, (n \div 256) % 256, (n \div 65536) % 256, (n \div 16777216) % 256>>

\* little-endian bytes of k * value(b), k small, one byte longer than b
RECURSIVE MulBytes(_, _, _)
MulBytes(b, k, carry) ==
    IF b = <<>> THEN <<carry>>
    ELSE LET v == Head(b) * k + carry
         IN <<v % 256>> \o MulBytes(Tail(b), k, v \div 256)

\* Wave_write._write_header followed by _patchheader: the final header
WavHeader(rate, datalen) ==
    <<82, 73, 70, 70>> \o LE32(36 + datalen)          \* "RIFF"
    \o <<87, 65, 86, 69>> \o <<102, 109, 116, 32>> \o LE32(16)  \* "WAVE", "fmt "
    \o LE16(1) \o LE16(Channels) \o LE32(rate)
    \o SubSeq(MulBytes(LE32(rate), Channels * SampleWidth, 0), 1, 4)
    \o LE16(Channels * SampleWidth) \o LE16(SampleWidth * 8)
    \o <<100, 97, 116, 97>> \o LE32(datalen)           \* "data"

Ok(v) == [ok |-> TRUE, val |-> v, exc |-> None]

Raise(e) == [ok |-> FALSE, val |-> <<>>, exc |-> e]

\* the size of the header Wave_write writes for PCM data
HeaderSize == 44

\* a writer that pads the data to a whole number of 16-bit frames
WrapPcmInWav_Padded(pcm, rate) ==
    IF ~IsPositive(rate) THEN Raise("wave.Error")
    ELSE IF ~pcm.present THEN Raise("TypeError")
    ELSE IF ~FitsHeader(rate) THEN Raise("struct.error")
    ELSE LET data == IF Len(pcm.bytes) % SampleWidth = 0
                     THEN pcm.bytes ELSE pcm.bytes \o <<0>>
         IN Ok(WavHeader(DigitsToInt(rate.digits), Len(data)) \o data)

\* pcm is [present |-> BOOLEAN, bytes |-> Seq(0..255)]: inline_data.data may
\* be None.  setframerate rejects rate <= 0 (wave.Error), writeframes rejects
\* None (TypeError), struct.pack rejects a rate the header cannot carry.
WrapPcmInWav(pcm, rate) ==
    IF ~IsPositive(rate) THEN Raise("wave.Error")
    ELSE IF ~pcm.present THEN Raise("TypeError")
    ELSE IF ~FitsHeader(rate) THEN Raise("struct.error")
    ELSE Ok(WavHeader(DigitsToInt(rate.digits), Len(pcm.bytes)) \o pcm.bytes)

\* the sample rate a container declares (bytes 24..27, little-endian)
DeclaredRate(wav) == wav[25] + 256 * wav[26] + 65536 * wav[27] + 16777216 * wav[28]

\* the data length a container declares (bytes 40..43)
DeclaredDataLen(wav) == wav[41] + 256 * wav[42] + 65536 * wav[43] + 16777216 * wav[44]

\* ------------------------------------------------------------------------
\* duration  (audio_generator.py:201-203)
\* ------------------------------------------------------------------------

RECURSIVE IntToStr(_)
IntToStr(n) ==
    IF n < 10 THEN <<Digits[n + 1]>> ELSE IntToStr(n \div 10) \o <<Digits[(n % 10) + 1]>>

\* the seconds written without zero padding
Pad2_Bare(n) == IntToStr(n)

\* f"{n:02d}"
Pad2(n) == IF n < 10 THEN <<"0">> \o IntToStr(n) ELSE IntToStr(n)

\* a duration that forgets the two bytes of a 16-bit sample
WholeSeconds_PerByte(len, rate) == len \div rate

\* floor(len / (rate * 2)), rate > 0
WholeSeconds(len, rate) == (len \div 2) \div rate

\* f"{int(d // 60)}:{int(d % 60):02d}" with d = len / (rate * 2)
DurationStr(len, rate) ==
    IntToStr(WholeSeconds(len, rate) \div 60) \o <<":">> \o Pad2(WholeSeconds(len, rate) % 60)

\* ------------------------------------------------------------------------
\* base64.b64encode(...).decode("utf-8")
\* ------------------------------------------------------------------------

B64Alphabet ==
    <<"A", "B", "C", "D", "E", "F", "G", "H", "I", "J", "K", "L", "M",
      "N", "O", "P", "Q", "R", "S", "T", "U", "V", "W", "X", "Y", "Z",
      "a", "b", "c", "d", "e", "f", "g", "h", "i", "j", "k", "l", "m",
      "n", "o", "p", "q", "r", "s", "t", "u", "v", "w", "x", "y", "z",
      "0", "1", "2", "3", "4", "5", "6", "7", "8", "9", "+", "/">>

B64Char(v) == B64Alphabet[v + 1]

\* the four characters for the (up to three) bytes of b from position i
B64Quad(b, i) ==
    IF Len(b) = i
    THEN <<B64Char(b[i] \div 4), B64Char((b[i] % 4) * 16), "=", "=">>
    ELSE IF Len(b) = i + 1
    THEN <<B64Char(b[i] \div 4), B64Char((b[i] % 4) * 16 + b[i + 1] \div 16),
           B64Char((b[i + 1] % 16) * 4), "=">>
    ELSE <<B64Char(b[i] \div 4), B64Char((b[i] % 4) * 16 + b[i + 1] \div 16),
           B64Char((b[i + 1] % 16) * 4 + b[i + 2] \div 64), B64Char(b[i + 2] % 64)>>

RECURSIVE B64From(_, _)
B64From(b, i) == IF i > Len(b) THEN <<>> ELSE B64Quad(b, i) \o B64From(b, i + 3)

B64Encode(b) == B64From(b, 1)

B64Index(c) == (CHOOSE i \in 1..64 : B64Alphabet[i] = c) - 1

\* base64.b64decode, used to state that the encoded text carries the bytes
B64Triple(t, i) ==
    LET a == B64Index(t[i])
        b == B64Index(t[i + 1])
    IN IF t[i + 2] = "=" THEN <<a * 4 + b \div 16>>
       ELSE LET c == B64Index(t[i + 2])
            IN IF t[i + 3] = "="
               THEN <<a * 4 + b \div 16, (b % 16) * 16 + c \div 4>>
               ELSE <<a * 4 + b \div 16, (b % 16) * 16 + c \div 4,
                      (c % 4) * 64 + B64Index(t[i + 3])>>

RECURSIVE B64DecodeFrom(_, _)
B64DecodeFrom(t, i) ==
    IF i > Len(t) THEN <<>> ELSE B64Triple(t, i) \o B64DecodeFrom(t, i + 4)

B64Decode(t) == B64DecodeFrom(t, 1)


\* ------------------------------------------------------------------------
\* Inputs: what the TTS service can answer
\* ------------------------------------------------------------------------

BaseMime == <<"a", "u", "d", "i", "o", "/", "L", "1", "6">>

WavMime == <<"a", "u", "d", "i", "o", "/", "w", "a", "v">>

\* MIME parameters seen after the base type, as "name=value" text
MimeParams ==
    { <<"c", "o", "d", "e", "c", "=", "p", "c", "m">>,
      <<"r", "a", "t", "e", "=", "2", "4", "0", "0", "0">>,
      <<"r", "a", "t", "e", "=", "8", "0", "0", "0">>,
      <<"r", "a", "t", "e", "=", " ", "1", "6", "0", "0", "0">>,
      <<"r", "a", "t", "e", "=", "0">>,
      <<"r", "a", "t", "e", "=", "-", "1">>,
      <<"r", "a", "t", "e", "=", "h", "i", "g", "h">>,
      <<"r", "a", "t", "e", "=", "2", "1", "4", "7", "4", "8", "3", "6", "4", "7">>,
      <<"r", "a", "t", "e", "=", "2", "1", "4", "7", "4", "8", "3", "6", "4", "8">>,
      <<"b", "i", "t", "r", "a", "t", "e", "=", "1", "2", "8">>,
      <<"r", "a", "t", "e", "=", "8", "0", "0", "0", " ",
        "r", "a", "t", "e", "=", "1", "6", "0", "0", "0">> }

RECURSIVE MimesWith(_)
MimesWith(n) ==
    IF n = 0 THEN {BaseMime}
    ELSE LET shorter == MimesWith(n - 1)
         IN shorter \cup {m \o <<";">> \o p : m \in shorter, p \in MimeParams}

MimeStrings == MimesWith(MaxParams)

PayloadByteSet == {0, 255}

RECURSIVE BytesUpTo(_)
BytesUpTo(n) ==
    IF n = 0 THEN {<<>>}
    ELSE LET shorter == BytesUpTo(n - 1)
         IN shorter \cup {b \o <<x>> : b \in shorter, x \in PayloadByteSet}

Payloads == BytesUpTo(MaxPayloadLen)

Some(v) == [present |-> TRUE, val |-> v]

Absent == [present |-> FALSE, val |-> <<>>]

\* part.inline_data of the audio part: data and mime_type may each be None
InlineData(data, mime) == [data |-> data, mime_type |-> mime]

\* the usual answer of the service: audio/L16;codec=pcm;rate=24000
UsualMime ==
    BaseMime \o <<";">> \o <<"c", "o", "d", "e", "c", "=", "p", "c", "m">>
    \o <<";">> \o <<"r", "a", "t", "e", "=", "2", "4", "0", "0", "0">>

\* len(raw_audio_bytes) and sample_rate of clips too long to spell out in bytes
ClipSizes ==
    {0, 1, 2, 47999, 48000, 96000, 96001, 2879999, 2880000, 5760000, 28800000, 172800000}

ClipRates == {8000, 16000, 22050, 24000, 44100, 48000}

Clips == [bytes : ClipSizes, rate : ClipRates]

NoClip == [bytes |-> 0, rate |-> 0]

\* every MIME string with the usual payload, every payload with the usual
\* MIME string, and the answers that lack a MIME type or the data
AudioPool ==
    {InlineData(Some(<<0, 255>>), Some(m)) : m \in MimeStrings}
    \cup {InlineData(Some(b), Some(UsualMime)) : b \in Payloads}
    \cup {InlineData(Some(b), Absent) : b \in Payloads}
    \cup {InlineData(Absent, Some(BaseMime))}

SmallPool == {InlineData(Some(<<0, 255>>), Some(UsualMime))}

\* a part of the first candidate: text parts carry no inline_data
TextPart == [inline_data |-> [present |-> FALSE, val |-> InlineData(Absent, Absent)]]

AudioPart(a) == [inline_data |-> [present |-> TRUE, val |-> a]]

\* response.candidates, candidates[0].content, content.parts
Response(hasCandidates, hasContent, hasParts, parts) ==
    [candidates |-> hasCandidates, content |-> hasContent,
     has_parts |-> hasParts, parts |-> parts]

\* the responses generate_content can return when it returns
Responses(a) ==
    { Response(FALSE, FALSE, FALSE, <<>>),
      Response(TRUE, FALSE, FALSE, <<>>),
      Response(TRUE, TRUE, FALSE, <<>>),
      Response(TRUE, TRUE, TRUE, <<>>),
      Response(TRUE, TRUE, TRUE, <<TextPart>>),
      Response(TRUE, TRUE, TRUE, <<AudioPart(a)>>),
      Response(TRUE, TRUE, TRUE, <<TextPart, AudioPart(a)>>) }

NoResponse == Response(FALSE, FALSE, FALSE, <<>>)


\* ------------------------------------------------------------------------
\* State
\* ------------------------------------------------------------------------

VARIABLES
    USE_VERTEX_AI,   \* config.USE_VERTEX_AI, fixed for the process
    AUDIO_OVERVIEW_INSTRUCTION,  \* the audio agent's instruction, set at import
    tts,             \* the inline audio the TTS service answers with
    clip,            \* size and sample rate of a clip whose duration is asked
    candidate,       \* schema and overall_score of an object to construct
    plan,            \* how the TTS service will answer this invocation's calls
    pc,              \* position of generate_audio_overview
    runs,            \* invocations of generate_audio_overview so far
    speech_config,   \* the SpeechConfig built for this invocation
    attempt_number,  \* tenacity's retry_state.attempt_number
    calls,           \* outcome of each generate_content call of this invocation
    sleeps,          \* backoff sleeps of this invocation, in seconds
    response,        \* the value generate_with_retry returned
    retry_out,       \* how generate_with_retry was left
    wav,             \* audio_bytes, the container of this invocation
    duration_str,    \* duration_str of this invocation
    result,          \* the mapping generate_audio_overview returned
    escaped,         \* exception raised out of generate_audio_overview
    save_outcome,    \* what save_artifact did in this invocation
    before,          \* session state and version count when the invocation began
    state,           \* session state (tool_context.state)
    artifacts,       \* versions saved under audio_overview.wav
    member,          \* status of each fan-out member
    view,            \* session state as last read by each member
    written,         \* the session-state keys each member has written
    entry,           \* session state when the fan-out started
    joined,          \* whether the fan-out has returned, and with what
    stage,           \* status of each sequential stage
    errors,          \* terminal errors the sequential runner surfaced
    built            \* what constructing the candidate gave

\* what a behaviour is given and never changes
inputVars == <<USE_VERTEX_AI, AUDIO_OVERVIEW_INSTRUCTION, tts, clip, candidate>>

toolVars ==
    <<plan, pc, runs, speech_config, attempt_number, calls, sleeps, response,
      retry_out, wav, duration_str, result, escaped, save_outcome, before>>

storeVars == <<state, artifacts>>

fanVars == <<member, view, entry, joined>>

seqVars == <<stage, errors>>

\* written is left out of fanVars: the tool's own writes update it

vars == <<inputVars, toolVars, storeVars, fanVars, written, seqVars, built>>

\* ------------------------------------------------------------------------
\* Speech configuration  (audio_generator.py:120-159)
\* ------------------------------------------------------------------------

Voice(speaker, name) == [speaker |-> speaker, voice_name |-> name]

SingleSpeakerConfig == [kind |-> "voice_config", voices |-> <<Voice(None, "Kore")>>]

MultiSpeakerConfig ==
    [kind |-> "multi_speaker_voice_config",
     voices |-> <<Voice("Host A", "Kore"), Voice("Host B", "Puck")>>]

NoConfig == [kind |-> None, voices |-> <<>>]

\* AUDIO_OVERVIEW_INSTRUCTION_MULTI_SPEAKER: a dialogue of two labelled hosts
\* (audio_overview/agent.py:35-131)
InstructionMultiSpeaker == [style |-> "dialogue", labels |-> <<"Host A", "Host B">>]

\* AUDIO_OVERVIEW_INSTRUCTION_SINGLE_SPEAKER: one narrator, no speaker labels
\* (audio_overview/agent.py:134-229)
InstructionSingleSpeaker == [style |-> "narrative", labels |-> <<>>]

\* a selection that ignores the mode
SelectInstruction_AlwaysDialogue(useVertex) == InstructionMultiSpeaker

\* audio_overview/agent.py:231-235
SelectInstruction(useVertex) ==
    IF useVertex THEN InstructionSingleSpeaker ELSE InstructionMultiSpeaker

\* a configuration that asks for two speakers whatever the mode
SpeechConfig_AlwaysMulti(useVertex) == MultiSpeakerConfig

SpeechConfig(useVertex) == IF useVertex THEN SingleSpeakerConfig ELSE MultiSpeakerConfig

\* ------------------------------------------------------------------------
\* Retry policy  (audio_generator.py:162-170, tenacity)
\* ------------------------------------------------------------------------

StopAttempts == 3

WaitMultiplier == 2

WaitMin == 2

WaitMax == 30

Transient == "ServerError"

\* exceptions generate_content raises
CallErrors == {"ServerError", "ClientError"}

\* the service fails transiently `failures` times, then answers `final`
Plans == [failures : 0..MaxFailures, final : {"ok", "ClientError"}]

\* the service answers at once, or only after the retries are used up
UsualPlans == {p \in Plans : p.failures \in {0, StopAttempts}}

NoPlan == [failures |-> 0, final |-> None]

\* what the n-th generate_content call of an invocation does
CallOutcome(p, n) == IF n <= p.failures THEN Transient ELSE p.final

Call(outcome, value) == [outcome |-> outcome, value |-> value]

RECURSIVE Pow2(_)
Pow2(n) == IF n = 0 THEN 1 ELSE 2 * Pow2(n - 1)

\* a policy that retries whatever the call raises
RetryIf_Any(e) == TRUE

\* retry_if_exception_type(ServerError)
RetryIf(e) == e = Transient

\* a policy that gives up one attempt early
StopAfterAttempt_Early(n) == n >= StopAttempts - 1

\* stop_after_attempt(3)
StopAfterAttempt(n) == n >= StopAttempts

\* a wait whose exponent is the attempt number, not one less
WaitExponential_OffByOne(n) ==
    IF WaitMultiplier * Pow2(n) > WaitMax THEN WaitMax
    ELSE IF WaitMultiplier * Pow2(n) < WaitMin THEN WaitMin
    ELSE WaitMultiplier * Pow2(n)

\* wait_exponential(multiplier=2, min=2, max=30) after attempt n
WaitExponential(n) ==
    IF WaitMultiplier * Pow2(n - 1) > WaitMax THEN WaitMax
    ELSE IF WaitMultiplier * Pow2(n - 1) < WaitMin THEN WaitMin
    ELSE WaitMultiplier * Pow2(n - 1)

\* a policy with no stop condition
AfterFailure_NoStop(e, n) ==
    IF ~RetryIf(e) THEN [do |-> "raise", exc |-> e]
    ELSE [do |-> "sleep", exc |-> None]

\* what tenacity does with an exception e of attempt n: re-raise it, give up
\* with RetryError (reraise is not set), or sleep and call again
AfterFailure(e, n) ==
    IF ~RetryIf(e) THEN [do |-> "raise", exc |-> e]
    ELSE IF StopAfterAttempt(n) THEN [do |-> "raise", exc |-> "RetryError"]
    ELSE [do |-> "sleep", exc |-> None]

NotLeft == [kind |-> "running", exc |-> None]

LeftWithValue == [kind |-> "value", exc |-> None]

LeftRaising(e) == [kind |-> "raise", exc |-> e]

\* ------------------------------------------------------------------------
\* Results of generate_audio_overview  (audio_generator.py:226-260)
\* ------------------------------------------------------------------------

ArtifactFilename == "audio_overview.wav"

NoResult == [status |-> "none"]

SavedResult(version, container, dur) ==
    [status |-> "success",
     message |-> "Audio overview generated and saved as artifact",
     artifact_saved |-> TRUE,
     artifact_filename |-> ArtifactFilename,
     artifact_version |-> version,
     mime_type |-> WavMime,
     duration_estimate |-> dur,
     size_bytes |-> Len(container)]

\* a save failure reported as a failure of the stage
FallbackResult_AsError(container, dur, err) ==
    [status |-> "error",
     error_message |-> <<"Failed to save audio artifact: ", err>>]

\* a failure inside the save block handed on to the outer handler
FallbackResult_Escalated(container, dur, err) ==
    [status |-> "error",
     error_message |-> <<"Failed to generate audio overview: ", err>>]

FallbackResult(container, dur, err) ==
    [status |-> "success",
     message |-> "Audio overview generated but artifact save failed",
     artifact_saved |-> FALSE,
     audio_data |-> B64Encode(container),
     mime_type |-> WavMime,
     duration_estimate |-> dur,
     save_error |-> err]

\* the no-audio outcome without its message
NoAudioResult_Bare == [status |-> "error"]

NoAudioResult ==
    [status |-> "error",
     error_message |-> <<"No audio was generated in the response. The model may have encountered an issue.">>]

\* a failure reported under another status word
ErrorResult_Failed(e) ==
    [status |-> "failed",
     error_message |-> <<"Failed to generate audio overview: ", e>>]

ErrorResult(e) ==
    [status |-> "error",
     error_message |-> <<"Failed to generate audio overview: ", e>>]

\* a handler that lets tenacity's RetryError through
CaughtByOuter_NotRetryError(e) == e # "RetryError"

\* except Exception: every exception the body raises is an Exception
CaughtByOuter(e) == TRUE

\* a body without the outer handler: the failure leaves the function
OuterExcept_Reraise(e) == [result |-> NoResult, escaped |-> e]

\* the outer try/except: the failure becomes a returned mapping
OuterExcept(e) ==
    IF CaughtByOuter(e)
    THEN [result |-> ErrorResult(e), escaped |-> None]
    ELSE [result |-> NoResult, escaped |-> e]


\* ------------------------------------------------------------------------
\* Session state and artifact store
\* ------------------------------------------------------------------------

AudioKeys == {"audio_overview_result", "audio_overview_base64", "audio_overview_duration"}

InputKeys == {"target_location", "business_type", "strategic_report"}

Members == {"report", "infographic", "audio"}

Siblings == {"report", "infographic"}

\* the audio agent declared with the report agent's output key
OutputKey_Clash(m) ==
    IF m = "infographic" THEN "infographic_result" ELSE "report_generation_result"

\* output_key of each member (audio_overview/agent.py:251)
OutputKey(m) ==
    IF m = "audio" THEN "audio_overview_result"
    ELSE IF m = "report" THEN "report_generation_result"
    ELSE "infographic_result"

\* the five analysis stages, in the order the pipeline runs them
Stages ==
    <<"intake", "market_research", "competitor_mapping", "gap_analysis", "strategy_advisor">>

StageNames == {Stages[i] : i \in 1..Len(Stages)}

\* the session-state keys each stage leaves behind (tests/conftest.py:47-122)
StageKeys(s) ==
    IF s = "intake" THEN {"target_location", "business_type"}
    ELSE IF s = "market_research" THEN {"market_research_findings"}
    ELSE IF s = "competitor_mapping" THEN {"competitor_analysis"}
    ELSE IF s = "gap_analysis" THEN {"gap_analysis"}
    ELSE {"strategic_report"}

AnalysisKeys == UNION {StageKeys(s) : s \in StageNames}

Keys == AnalysisKeys \cup InputKeys \cup AudioKeys \cup {OutputKey(m) : m \in Siblings}

\* the session of a run before its first stage
EmptySession == [k \in Keys |-> Absent]

\* the session state the artifact stage starts from: the analysis is there
InitState == [k \in Keys |-> IF k \in AnalysisKeys THEN Some(<<k>>) ELSE Absent]

NoBefore == [state |-> InitState, versions |-> 0]

\* tool_context.state[key] = value: plain item assignment on the shared state
StateSet(st, key, value) == [st EXCEPT ![key] = Some(value)]

\* a write by member m: the state does not know or check who writes
MemberWrite(m, st, key, value) == StateSet(st, key, value)

\* member m has now written the keys ks
Wrote(w, m, ks) == [w EXCEPT ![m] = @ \cup ks]

DataUriPrefix(mime) == <<"d", "a", "t", "a", ":">> \o mime \o <<";", "b", "a", "s", "e", "6", "4", ",">>

\* the base64 text stored without the data-URI prefix
DataUri_Bare(mime, container) == B64Encode(container)

\* f"data:{mime_type};base64,{b64_audio}"
DataUri(mime, container) == DataUriPrefix(mime) \o B64Encode(container)

\* a store that keeps one copy per name and writes the new bytes over it
SaveArtifact_Overwrites(store, container) ==
    [store |-> <<[filename |-> ArtifactFilename, data |-> container, mime_type |-> WavMime]>>,
     version |-> 0]

\* save_artifact appends a version and returns its number
SaveArtifact(store, container) ==
    [store |-> Append(store, [filename |-> ArtifactFilename, data |-> container, mime_type |-> WavMime]),
     version |-> Len(store)]

\* ------------------------------------------------------------------------
\* generate_audio_overview  (audio_generator.py:86-260)
\* ------------------------------------------------------------------------

\* the function returns (or raises) with outcome o
Leave(o) ==
    /\ pc' = "returned"
    /\ result' = o.result
    /\ escaped' = o.escaped

Return(r) == Leave([result |-> r, escaped |-> None])

\* the locals of generate_audio_overview outside an invocation
ToolLocalsCleared ==
    /\ plan' = NoPlan
    /\ speech_config' = NoConfig
    /\ attempt_number' = 0
    /\ calls' = <<>>
    /\ sleeps' = <<>>
    /\ response' = NoResponse
    /\ retry_out' = NotLeft
    /\ wav' = Absent
    /\ duration_str' = <<>>
    /\ result' = NoResult
    /\ escaped' = None
    /\ save_outcome' = "none"
    /\ before' = NoBefore

\* lines 114-159: a new invocation; genai.Client() may raise
ToolInvoke(maxRuns, plans) ==
    /\ pc \in {"idle", "returned"}
    /\ runs < maxRuns
    /\ runs' = runs + 1
    /\ plan' \in plans
    /\ save_outcome' = "none"
    /\ before' = [state |-> state, versions |-> Len(artifacts)]
    /\ calls' = <<>>
    /\ sleeps' = <<>>
    /\ response' = NoResponse
    /\ retry_out' = NotLeft
    /\ wav' = Absent
    /\ duration_str' = <<>>
    /\ \E clientOk \in BOOLEAN :
        IF clientOk
        THEN /\ speech_config' = SpeechConfig(USE_VERTEX_AI)
             /\ attempt_number' = 1
             /\ pc' = "attempt"
             /\ result' = NoResult
             /\ escaped' = None
        ELSE /\ speech_config' = NoConfig
             /\ attempt_number' = 0
             /\ Leave(OuterExcept("ValueError"))
    /\ UNCHANGED <<inputVars, built, seqVars, storeVars>>

\* lines 171-179: generate_content answers
AttemptReturns ==
    /\ pc = "attempt"
    /\ CallOutcome(plan, attempt_number) = "ok"
    /\ \E r \in Responses(tts) :
        /\ response' = r
        /\ calls' = Append(calls, Call("ok", r))
    /\ retry_out' = LeftWithValue
    /\ pc' = "parse"
    /\ UNCHANGED <<inputVars, built, seqVars, plan, runs, speech_config, attempt_number, sleeps,
                   wav, duration_str, result, escaped, save_outcome, before,
                   storeVars, fanVars, written>>

\* lines 162-170: generate_content raises e; tenacity decides
AttemptRaises(e) ==
    /\ pc = "attempt"
    /\ CallOutcome(plan, attempt_number) = e
    /\ calls' = Append(calls, Call(e, NoResponse))
    /\ LET next == AfterFailure(e, attempt_number)
       IN IF next.do = "sleep"
          THEN /\ pc' = "sleep"
               /\ UNCHANGED <<retry_out, result, escaped>>
          ELSE /\ retry_out' = LeftRaising(next.exc)
               /\ Leave(OuterExcept(next.exc))
    /\ UNCHANGED <<inputVars, built, seqVars, plan, runs, speech_config, attempt_number, sleeps,
                   response, wav, duration_str, save_outcome, before,
                   storeVars, fanVars, written>>

\* the backoff sleep before the next attempt
BackoffSleep ==
    /\ pc = "sleep"
    /\ sleeps' = Append(sleeps, WaitExponential(attempt_number))
    /\ attempt_number' = attempt_number + 1
    /\ pc' = "attempt"
    /\ UNCHANGED <<inputVars, built, seqVars, plan, runs, speech_config, calls, response,
                   retry_out, wav, duration_str, result, escaped, save_outcome, before,
                   storeVars, fanVars, written>>

RECURSIVE FirstInline(_)
FirstInline(parts) ==
    IF parts = <<>> THEN Absent
    ELSE IF Head(parts).inline_data.present THEN Some(Head(parts).inline_data.val)
    ELSE FirstInline(Tail(parts))

\* lines 186-188: the first part of the first candidate that has inline data
FirstAudio(r) ==
    IF ~r.candidates THEN Ok(Absent)
    ELSE IF ~r.content THEN Raise("AttributeError")
    ELSE IF ~r.has_parts THEN Raise("TypeError")
    ELSE Ok(FirstInline(r.parts))

\* line 190: part.inline_data.mime_type or "audio/L16"
RawMime(a) == IF a.mime_type.present /\ a.mime_type.val # <<>> THEN a.mime_type.val ELSE BaseMime

\* lines 197-203: the container and the duration for a parsed rate
Wrapped(a, rate, w) ==
    IF w.ok
    THEN Ok([wav |-> w.val,
             duration |-> DurationStr(Len(a.data.val), DigitsToInt(rate.digits))])
    ELSE Raise(w.exc)

\* a wrapper that takes 24000 Hz when the parsed rate is not positive
Encode_DefaultOnBadRate(a) ==
    Only({Wrapped(a, rate, w) :
            <<rate, w>> \in {<<r, WrapPcmInWav([present |-> a.data.present,
                                                bytes |-> a.data.val], r)>> :
                               r \in {IF IsPositive(p) THEN p ELSE DefaultRate :
                                          p \in {ParseSampleRate(RawMime(a))}}}})

\* lines 189-203: sample rate, container, duration
Encode(a) ==
    Only({Wrapped(a, rate, w) :
            <<rate, w>> \in {<<r, WrapPcmInWav([present |-> a.data.present,
                                                bytes |-> a.data.val], r)>> :
                               r \in {ParseSampleRate(RawMime(a))}}})

\* lines 185-203 and 249-253: the response is read and the audio wrapped
ProcessResponse ==
    /\ pc = "parse"
    /\ \E part \in {FirstAudio(response)} :
        IF ~part.ok THEN /\ Leave(OuterExcept(part.exc))
                         /\ UNCHANGED <<wav, duration_str>>
        ELSE IF ~part.val.present THEN /\ Return(NoAudioResult)
                                       /\ UNCHANGED <<wav, duration_str>>
        ELSE \E enc \in {Encode(part.val.val)} :
                IF enc.ok
                THEN /\ wav' = Some(enc.val.wav)
                     /\ duration_str' = enc.val.duration
                     /\ pc' = "saving"
                     /\ UNCHANGED <<result, escaped>>
                ELSE /\ Leave(OuterExcept(enc.exc))
                     /\ UNCHANGED <<wav, duration_str>>
    /\ UNCHANGED <<inputVars, built, seqVars, plan, runs, speech_config, attempt_number, calls,
                   sleeps, response, retry_out, save_outcome, before,
                   storeVars, fanVars, written>>

\* where the code after a successful save can raise
PostSaveFailures == {"none", "before_writes", "between_writes"}

\* lines 205-247, save_artifact raises: the fallback result
SaveFails ==
    /\ pc = "saving"
    /\ save_outcome' = "failed"
    /\ Return(FallbackResult(wav.val, duration_str, "save_artifact failed"))
    /\ UNCHANGED <<inputVars, built, seqVars, plan, runs, speech_config, attempt_number, calls,
                   sleeps, response, retry_out, wav, duration_str, before,
                   storeVars, fanVars, written>>

\* lines 205-235, save_artifact returns a version; the state writes follow
SaveReturns(post) ==
    /\ pc = "saving"
    /\ LET saved == SaveArtifact(artifacts, wav.val)
           withUri == MemberWrite("audio", state, "audio_overview_base64",
                                  DataUri(WavMime, wav.val))
           withBoth == MemberWrite("audio", withUri, "audio_overview_duration", duration_str)
       IN /\ artifacts' = saved.store
          /\ save_outcome' = "stored"
          /\ IF post = "none"
             THEN /\ state' = withBoth
                  /\ written' = Wrote(written, "audio",
                                       {"audio_overview_base64", "audio_overview_duration"})
                  /\ Return(SavedResult(saved.version, wav.val, duration_str))
             ELSE IF post = "between_writes"
             THEN /\ state' = withUri
                  /\ written' = Wrote(written, "audio", {"audio_overview_base64"})
                  /\ Return(FallbackResult(wav.val, duration_str, post))
             ELSE /\ state' = state
                  /\ written' = written
                  /\ Return(FallbackResult(wav.val, duration_str, post))
    /\ UNCHANGED <<inputVars, built, seqVars, plan, runs, speech_config, attempt_number, calls,
                   sleeps, response, retry_out, wav, duration_str, before, fanVars>>


\* ------------------------------------------------------------------------
\* The artifact fan-out  (artifact_generation/agent.py:33-48)
\* ------------------------------------------------------------------------

Terminal == {"success", "failure"}

NotRead == [read |-> FALSE, state |-> [k \in Keys |-> Absent]]

NotJoined == [done |-> FALSE, outcome |-> [m \in Members |-> "pending"]]

\* generate_audio_overview is running synchronous code (client construction,
\* the blocking TTS call, tenacity's time.sleep, wrapping): the event loop is
\* not released until the await of save_artifact or the return
LoopHeld == pc \in {"attempt", "sleep", "parse"}

\* a failure that takes the members still running down with it
FailMember_CancelsRest(mem, m) ==
    [x \in Members |->
        IF x = m THEN "failure" ELSE IF mem[x] = "running" THEN "cancelled" ELSE mem[x]]

\* a member ends with a failure: only its own status changes
FailMember(mem, m) == [mem EXCEPT ![m] = "failure"]

SucceedMember(mem, m) == [mem EXCEPT ![m] = "success"]

NoStageRun == [s \in StageNames |-> "pending"]

AllStagesDone == [s \in StageNames |-> "succeeded"]

\* a runner that moves on once the stage before has ended, however it ended
MayStart_AfterAnyEnd(st, i) ==
    /\ st[Stages[i]] = "pending"
    /\ \A j \in 1..(i - 1) : st[Stages[j]] \in {"succeeded", "failed"}

\* the runner starts stage i: it is the next one, and every stage before it
\* completed successfully
MayStart(st, i) ==
    /\ st[Stages[i]] = "pending"
    /\ \A j \in 1..(i - 1) : st[Stages[j]] = "succeeded"

\* a stage's writes: its output keys, on the cumulative state
StageWrites(st, s) == [k \in Keys |-> IF k \in StageKeys(s) THEN Some(<<k>>) ELSE st[k]]

StageStart(i) ==
    /\ MayStart(stage, i)
    /\ stage' = [stage EXCEPT ![Stages[i]] = "active"]
    /\ UNCHANGED <<inputVars, built, toolVars, storeVars, fanVars, written, errors>>

\* stage i ends: on success its keys are in the state, on failure the runner
\* surfaces one error naming the stage and does not advance
StageEnds(i, ok) ==
    /\ stage[Stages[i]] = "active"
    /\ IF ok
       THEN /\ stage' = [stage EXCEPT ![Stages[i]] = "succeeded"]
            /\ state' = StageWrites(state, Stages[i])
            /\ errors' = errors
       ELSE /\ stage' = [stage EXCEPT ![Stages[i]] = "failed"]
            /\ state' = state
            /\ errors' = Append(errors, [stage |-> Stages[i], state |-> state])
    /\ UNCHANGED <<inputVars, built, toolVars, artifacts, fanVars, written>>

\* a fan-out started as soon as the last analysis stage is under way
FanOutMayStart_Eager(st) == st[Stages[Len(Stages)]] \in {"active", "succeeded"}

\* the orchestrator enters the fan-out after the five analysis stages
FanOutMayStart(st) == \A s \in StageNames : st[s] = "succeeded"

\* ParallelAgent starts its sub_agents together on the one session
FanOutStart ==
    /\ FanOutMayStart(stage)
    /\ \A m \in Members : member[m] = "pending"
    /\ member' = [m \in Members |-> "running"]
    /\ entry' = state
    /\ UNCHANGED <<inputVars, built, seqVars, toolVars, storeVars, view, joined, written>>

\* a read served from the state as it was when the fan-out started
ReadState_Snapshot(m, st) == [read |-> TRUE, state |-> entry]

\* the session state as member m finds it when it reads
ReadState(m, st) == [read |-> TRUE, state |-> st]

\* the report or infographic member reads the session state it shares
MemberRead(m) ==
    /\ m \in Siblings
    /\ member[m] = "running"
    /\ ~LoopHeld
    /\ view' = [view EXCEPT ![m] = ReadState(m, state)]
    /\ UNCHANGED <<inputVars, built, seqVars, toolVars, storeVars, member, entry, joined, written>>

\* the report or infographic member ends, writing its output key on success
SiblingEnds(m, ok) ==
    /\ m \in Siblings
    /\ member[m] = "running"
    /\ ~LoopHeld
    /\ IF ok
       THEN /\ state' = MemberWrite(m, state, OutputKey(m), <<"done">>)
            /\ written' = Wrote(written, m, {OutputKey(m)})
            /\ member' = SucceedMember(member, m)
       ELSE /\ state' = state
            /\ written' = written
            /\ member' = FailMember(member, m)
    /\ UNCHANGED <<inputVars, built, seqVars, toolVars, artifacts, view, entry, joined>>

\* the audio agent's instruction is filled from the session state and its
\* model calls the tool (audio_overview/agent.py:35-44, 237-254)
AudioCallsTool ==
    /\ member["audio"] = "running"
    /\ view' = [view EXCEPT !["audio"] = ReadState("audio", state)]
    /\ ToolInvoke(MaxRuns, UsualPlans)
    /\ UNCHANGED <<member, entry, joined, written>>

\* an agent whose output key receives the mapping its tool returned
FinalResponse_ToolResult(res) == <<"status", res.status>>

\* the agent's final response is the model's text about the tool's result,
\* and that text is what output_key stores (audio_overview/agent.py:251)
FinalResponse(res) == <<"final response">>

\* the audio agent ends: its final text goes to output_key, and the tool's
\* locals are gone (audio_overview/agent.py:237-254)
AudioEnds ==
    /\ member["audio"] = "running"
    /\ pc = "returned"
    /\ state' = MemberWrite("audio", state, OutputKey("audio"), FinalResponse(result))
    /\ written' = Wrote(written, "audio", {OutputKey("audio")})
    /\ member' = IF result.status = "success"
                 THEN SucceedMember(member, "audio")
                 ELSE FailMember(member, "audio")
    /\ pc' = "ended"
    /\ ToolLocalsCleared
    /\ UNCHANGED <<inputVars, built, seqVars, runs, artifacts, view, entry, joined>>

\* the fan-out returns once every member has ended
Join ==
    /\ ~joined.done
    /\ \A m \in Members : member[m] \in Terminal
    /\ joined' = [done |-> TRUE, outcome |-> member]
    /\ UNCHANGED <<inputVars, built, seqVars, toolVars, storeVars, member, view, entry, written>>

\* ------------------------------------------------------------------------
\* Report schemas: overall_score  (tests/unit/test_schemas.py:169-224)
\* ------------------------------------------------------------------------

ScoreMin == 0

ScoreMax == 100

SchemaKinds == {"LocationRecommendation", "AlternativeLocation"}

Candidates ==
    [schema : SchemaKinds, overall_score : (ScoreMin - MaxExcess)..(ScoreMax + MaxExcess)]

NoCandidate == [schema |-> None, overall_score |-> 0]

NoObject == [ok |-> FALSE, val |-> None, exc |-> None]

\* a schema that pulls the score into the range instead of rejecting it
Construct_Clamped(kind, score) ==
    Ok([schema |-> kind,
        overall_score |-> IF score < ScoreMin THEN ScoreMin
                          ELSE IF score > ScoreMax THEN ScoreMax ELSE score])

\* LocationRecommendation(...) / AlternativeLocation(...): the score is
\* validated against 0..100 at construction
Construct(kind, score) ==
    IF score >= ScoreMin /\ score <= ScoreMax
    THEN Ok([schema |-> kind, overall_score |-> score])
    ELSE Raise("ValidationError")

ConstructCandidate ==
    /\ candidate # NoCandidate
    /\ built = NoObject
    /\ built' = Construct(candidate.schema, candidate.overall_score)
    /\ UNCHANGED <<inputVars, toolVars, storeVars, fanVars, written, seqVars>>

\* ------------------------------------------------------------------------
\* Specifications
\* ------------------------------------------------------------------------

InitCommon ==
    /\ AUDIO_OVERVIEW_INSTRUCTION = SelectInstruction(USE_VERTEX_AI)
    /\ plan = NoPlan
    /\ pc = "idle"
    /\ runs = 0
    /\ save_outcome = "none"
    /\ before = NoBefore
    /\ written = [m \in Members |-> {}]
    /\ speech_config = NoConfig
    /\ attempt_number = 0
    /\ calls = <<>>
    /\ sleeps = <<>>
    /\ response = NoResponse
    /\ retry_out = NotLeft
    /\ wav = Absent
    /\ duration_str = <<>>
    /\ result = NoResult
    /\ escaped = None
    /\ artifacts = <<>>
    /\ member = [m \in Members |-> "pending"]
    /\ view = [m \in Members |-> NotRead]
    /\ entry = InitState
    /\ joined = NotJoined
    /\ errors = <<>>
    /\ built = NoObject

\* the pipeline's fan-out on AI Studio (GOOGLE_GENAI_USE_VERTEXAI is FALSE),
\* the TTS service answering as it usually does
Init ==
    /\ USE_VERTEX_AI = FALSE
    /\ clip = NoClip
    /\ candidate = NoCandidate
    /\ tts \in SmallPool
    /\ stage = NoStageRun
    /\ state = EmptySession
    /\ InitCommon

Next ==
    \/ \E i \in 1..Len(Stages) : StageStart(i)
    \/ \E i \in 1..Len(Stages), ok \in BOOLEAN : StageEnds(i, ok)
    \/ FanOutStart
    \/ \E m \in Siblings : MemberRead(m)
    \/ \E m \in Siblings, ok \in BOOLEAN : SiblingEnds(m, ok)
    \/ AudioCallsTool
    \/ AttemptReturns
    \/ \E e \in CallErrors : AttemptRaises(e)
    \/ BackoffSleep
    \/ ProcessResponse
    \/ SaveFails
    \/ \E post \in PostSaveFailures : SaveReturns(post)
    \/ AudioEnds
    \/ Join

Spec == Init /\ [][Next]_vars

\* the five analysis stages have run and left their keys in the session
AnalysisDone ==
    /\ stage = AllStagesDone
    /\ state = InitState

\* one invocation of the tool on its own, over every answer of the TTS service
InitTool ==
    /\ USE_VERTEX_AI \in BOOLEAN
    /\ clip = NoClip
    /\ candidate = NoCandidate
    /\ tts \in AudioPool
    /\ AnalysisDone
    /\ InitCommon

DirectCall ==
    /\ ToolInvoke(1, Plans)
    /\ UNCHANGED <<fanVars, written>>

NextTool ==
    \/ DirectCall
    \/ AttemptReturns
    \/ \E e \in CallErrors : AttemptRaises(e)
    \/ BackoffSleep
    \/ ProcessResponse
    \/ SaveFails
    \/ \E post \in PostSaveFailures : SaveReturns(post)

SpecTool == InitTool /\ [][NextTool]_vars

\* the event loop keeps running whatever can run
FairSpec == Spec /\ WF_vars(Next)

\* one invocation of the tool with the usual audio and every retry plan
InitRetry ==
    /\ USE_VERTEX_AI \in BOOLEAN
    /\ clip = NoClip
    /\ candidate = NoCandidate
    /\ tts \in SmallPool
    /\ AnalysisDone
    /\ InitCommon

\* the synchronous code of the tool runs on until it returns or awaits
SpecRetry == InitRetry /\ [][NextTool]_vars /\ WF_vars(NextTool)

\* lines 201-203 on their own: the duration text of clips of many sizes
InitDuration ==
    /\ USE_VERTEX_AI = FALSE
    /\ tts \in SmallPool
    /\ clip \in Clips
    /\ candidate = NoCandidate
    /\ AnalysisDone
    /\ InitCommon

MeasureClip ==
    /\ pc = "idle"
    /\ clip # NoClip
    /\ duration_str' = DurationStr(clip.bytes, clip.rate)
    /\ pc' = "measured"
    /\ UNCHANGED <<inputVars, built, seqVars, plan, runs, speech_config, attempt_number, calls, sleeps,
                   response, retry_out, wav, result, escaped, save_outcome, before,
                   storeVars, fanVars, written>>

SpecDuration == InitDuration /\ [][MeasureClip]_vars

\* the two scored schemas constructed with scores in and around 0..100
InitSchema ==
    /\ USE_VERTEX_AI = FALSE
    /\ tts \in SmallPool
    /\ clip = NoClip
    /\ candidate \in Candidates
    /\ AnalysisDone
    /\ InitCommon

SpecSchema == InitSchema /\ [][ConstructCandidate]_vars


\* ------------------------------------------------------------------------
\* Properties
\* ------------------------------------------------------------------------

\* genai.Client() was built, so generate_with_retry is or was called
ClientBuilt == speech_config # NoConfig

RetryLeft == retry_out.kind # "running"

\* the service raises the transient error k times and then answers
FailsThenAnswers(k) == plan.failures = k /\ plan.final = "ok"

\* the service raises the transient error k times and then a client error
FailsThenRejects(k) == plan.failures = k /\ plan.final = "ClientError"

\* C1: when generate_content raises ServerError on its first k attempts
\* (k = 0, 1, 2) and then answers, generate_with_retry makes exactly k + 1
\* attempts and returns the value of attempt k + 1.
C1_RetryUntilSuccess ==
    \A k \in 0..(StopAttempts - 1) :
        (ClientBuilt /\ FailsThenAnswers(k)) =>
            /\ Len(calls) <= k + 1
            /\ pc = "returned" => RetryLeft
            /\ RetryLeft =>
                /\ Len(calls) = k + 1
                /\ attempt_number = k + 1
                /\ \A i \in 1..k : calls[i].outcome = Transient
                /\ calls[k + 1].outcome = "ok"
                /\ retry_out = LeftWithValue
                /\ response = calls[k + 1].value

C1_Witness ==
    /\ FailsThenAnswers(2)
    /\ retry_out = LeftWithValue
    /\ Len(calls) = 3
    /\ response = calls[3].value

\* C2: when generate_content raises an error other than ServerError, that
\* attempt is the last: with such an error on the first call exactly one
\* attempt is made and nothing is slept, and the error leaves
\* generate_with_retry where it first occurs.
C2_NonTransientNotRetried ==
    \A k \in 0..(StopAttempts - 1) :
        (ClientBuilt /\ FailsThenRejects(k)) =>
            /\ Len(calls) <= k + 1
            /\ Len(sleeps) <= k
            /\ pc = "returned" => RetryLeft
            /\ RetryLeft =>
                /\ Len(calls) = k + 1
                /\ Len(sleeps) = k
                /\ calls[k + 1].outcome = "ClientError"
                /\ retry_out = LeftRaising("ClientError")

C2_Witness ==
    /\ FailsThenRejects(0)
    /\ pc = "returned"
    /\ Len(calls) = 1
    /\ sleeps = <<>>
    /\ retry_out = LeftRaising("ClientError")

\* the service raises the transient error on every allowed attempt
AlwaysTransient == plan.failures >= StopAttempts

\* C3 as stated: after three transient failures the error is raised out of
\* generate_audio_overview and no result mapping is returned.
C3_RaisedOutOfStage ==
    (pc = "returned" /\ ClientBuilt /\ AlwaysTransient) =>
        /\ escaped # None
        /\ result.status = "none"

\* C3 as the code has it: after three transient failures generate_with_retry
\* raises at its call site (tenacity's RetryError), the outer handler catches
\* it, and generate_audio_overview returns a mapping with status "error".
C3_ExhaustionReturnsError ==
    (pc = "returned" /\ ClientBuilt /\ AlwaysTransient) =>
        /\ Len(calls) = StopAttempts
        /\ \A i \in 1..StopAttempts : calls[i].outcome = Transient
        /\ retry_out = LeftRaising("RetryError")
        /\ escaped = None
        /\ result.status = "error"
        /\ result.error_message = <<"Failed to generate audio overview: ", "RetryError">>

C3_Witness ==
    /\ pc = "returned"
    /\ ClientBuilt
    /\ AlwaysTransient
    /\ retry_out = LeftRaising("RetryError")
    /\ result.status = "error"


\* C4: when save_artifact fails, generate_audio_overview still returns status
\* "success" with artifact_saved = FALSE, the base64 text of the container in
\* audio_data and the duration; it neither raises nor reports "error".
C4_SaveFailureFallsBack ==
    (pc = "returned" /\ save_outcome = "failed") =>
        /\ escaped = None
        /\ result.status = "success"
        /\ result.artifact_saved = FALSE
        /\ "audio_data" \in DOMAIN result
        /\ B64Decode(result.audio_data) = wav.val
        /\ result.duration_estimate = duration_str
        /\ Len(artifacts) = before.versions

C4_Witness ==
    /\ pc = "returned"
    /\ save_outcome = "failed"
    /\ result.status = "success"
    /\ result.artifact_saved = FALSE
    /\ B64Decode(result.audio_data) = wav.val

\* the response has a part of its first candidate that carries inline data
HasAudioPart(r) ==
    /\ r.candidates
    /\ r.content
    /\ r.has_parts
    /\ \E i \in 1..Len(r.parts) : r.parts[i].inline_data.present

\* C5: when the response holds no audio part (no candidates, or no part of
\* the first candidate with inline data), generate_audio_overview returns a
\* mapping with status "error" and an error_message, does not raise, and
\* saves no artifact.
C5_NoAudioIsStructuredError ==
    (pc = "returned" /\ retry_out = LeftWithValue /\ ~HasAudioPart(response)) =>
        /\ escaped = None
        /\ result.status = "error"
        /\ "error_message" \in DOMAIN result
        /\ save_outcome = "none"
        /\ Len(artifacts) = before.versions
        /\ wav = Absent

C5_Witness ==
    /\ pc = "returned"
    /\ retry_out = LeftWithValue
    /\ response.candidates
    /\ response.parts = <<TextPart>>
    /\ result = NoAudioResult
    /\ artifacts = <<>>

\* text: a non-empty sequence of string pieces
IsText(x) == x # <<>> /\ \A i \in 1..Len(x) : x[i] \in STRING

\* C9: every returned result has status "success" or "error"; a success has a
\* boolean artifact_saved and a duration_estimate; an error has an
\* error_message text and does not say artifact_saved = TRUE.
C9_ResultContract ==
    (pc = "returned" /\ escaped = None) =>
        /\ result.status \in {"success", "error"}
        /\ result.status = "success" =>
            /\ "artifact_saved" \in DOMAIN result
            /\ result.artifact_saved \in BOOLEAN
            /\ "duration_estimate" \in DOMAIN result
            /\ IsText(result.duration_estimate)
        /\ result.status = "error" =>
            /\ "error_message" \in DOMAIN result
            /\ IsText(result.error_message)
            /\ "artifact_saved" \notin DOMAIN result

C9_Witness ==
    /\ pc = "returned"
    /\ result.status = "success"
    /\ result.artifact_saved
    /\ result.duration_estimate = duration_str
    /\ duration_str # <<>>

\* the MIME string of the answered audio (none: no parameters at all)
GivenMime == IF tts.mime_type.present THEN tts.mime_type.val ELSE <<>>

\* the answer carried an audio part with PCM bytes and it has been processed
AudioProcessed ==
    /\ pc \in {"saving", "returned"}
    /\ retry_out = LeftWithValue
    /\ HasAudioPart(response)
    /\ tts.data.present

RateOccurs(m) == {i \in 1..Len(m) : MatchAt(m, RateKey, i)}

\* the text from after the "rate=" at i up to the next ";"
ValueAt(m, i) ==
    LET ends == {j \in (i + Len(RateKey))..Len(m) : m[j] = ";"}
        e == IF ends = {} THEN Len(m) + 1 ELSE CHOOSE j \in ends : \A x \in ends : j <= x
    IN SubSeq(m, i + Len(RateKey), e - 1)

\* the integers n for which m contains rate=<n>
RatesIn(m) ==
    {IntRec(PyInt(ValueAt(m, i)).neg, PyInt(ValueAt(m, i)).digits) :
        i \in {j \in RateOccurs(m) : PyInt(ValueAt(m, j)).ok}}

\* the container declares sample rate r
Declares(container, r) ==
    /\ container.present
    /\ ~r.neg
    /\ IntToStr(DeclaredRate(container.val)) = r.digits

\* C10 as stated: whenever the MIME string contains rate=<n> with n an
\* integer the container declares n, and otherwise it declares 24000.
C10_RateFromAnyParameter ==
    AudioProcessed =>
        IF RatesIn(GivenMime) # {}
        THEN \A r \in RatesIn(GivenMime) : Declares(wav, r)
        ELSE Declares(wav, DefaultRate)

\* the text after the first "rate=", up to the next ";" or "rate="
FirstRateText(m) ==
    LET i == CHOOSE j \in RateOccurs(m) : \A x \in RateOccurs(m) : j <= x
        from == i + Len(RateKey)
        ends == {j \in from..Len(m) : m[j] = ";" \/ MatchAt(m, RateKey, j)}
        e == IF ends = {} THEN Len(m) + 1 ELSE CHOOSE j \in ends : \A x \in ends : j <= x
    IN SubSeq(m, from, e - 1)

\* 1 <= r <= 2^31 - 1
RateInRange(r) == ~r.neg /\ r.digits # <<"0">> /\ DigitsLess(r.digits, RateLimitDigits)

\* C10 as the code has it: the rate is read after the first "rate=" only; an
\* integer n there with 1 <= n <= 2^31 - 1 is the declared rate; no "rate="
\* or no integer there gives 24000; any other n gives no container and a
\* result with status "error".
C10_RateFromFirstParameter ==
    AudioProcessed =>
        IF RateOccurs(GivenMime) = {} \/ ~PyInt(FirstRateText(GivenMime)).ok
        THEN Declares(wav, DefaultRate)
        ELSE LET n == PyInt(FirstRateText(GivenMime))
             IN IF RateInRange(n)
                THEN Declares(wav, IntRec(n.neg, n.digits))
                ELSE /\ wav = Absent
                     /\ pc = "returned"
                     /\ result.status = "error"

C10_Witness ==
    /\ pc = "saving"
    /\ AudioProcessed
    /\ RateOccurs(GivenMime) # {}
    /\ FirstRateText(GivenMime) = <<"8", "0", "0", "0">>
    /\ DeclaredRate(wav.val) = 8000


Started == \A m \in Members : member[m] # "pending"

Failed == {m \in Members : member[m] = "failure"}

Succeeded == {m \in Members : member[m] = "success"}

\* what the fan-out has returned is the outcome of members that have all ended
JoinWaitsForAll ==
    /\ \A m \in Members : member[m] \in {"pending", "running"} \cup Terminal
    /\ joined.done =>
        /\ \A m \in Members : member[m] \in Terminal
        /\ joined.outcome = member
        /\ Cardinality(Failed) = 1 =>
            /\ Cardinality({m \in Members : joined.outcome[m] = "failure"}) = 1
            /\ Cardinality({m \in Members : joined.outcome[m] = "success"}) = 2

\* a step in which a member fails leaves the status of every other member alone
NoSiblingCancelled ==
    \A m \in Members :
        (member[m] # "failure" /\ member'[m] = "failure")
            => \A x \in Members \ {m} : member'[x] = member[x]

OwnKeys(m) == IF m = "audio" THEN AudioKeys ELSE {OutputKey(m)}

DisjointWrites ==
    /\ \A a, b \in Members : a # b => written[a] \cap written[b] = {}
    /\ written["audio"] \subseteq AudioKeys

\* a write by a member to a key that is not its own is refused
WritesEnforced ==
    \A m \in Members : \A k \in Keys \ OwnKeys(m) :
        MemberWrite(m, state, k, <<"foreign">>)[k] = state[k]

C11_ContainerFraming ==
    (AudioProcessed /\ wav.present) =>
        /\ Len(wav.val) = HeaderSize + Len(tts.data.val)
        /\ SubSeq(wav.val, HeaderSize + 1, Len(wav.val)) = tts.data.val
        /\ SubSeq(wav.val, 1, 4) = <<82, 73, 70, 70>>
        /\ SubSeq(wav.val, 37, 40) = <<100, 97, 116, 97>>
        /\ DeclaredDataLen(wav.val) = Len(tts.data.val)

C11_Witness ==
    /\ AudioProcessed
    /\ wav.present
    /\ tts.data.val = <<255>>
    /\ Len(wav.val) = HeaderSize + 1
    /\ wav.val[HeaderSize + 1] = 255

\* the clip of the example: 96000 bytes of mono 16-bit samples at 24000 Hz
ExampleClip == [bytes |-> 96000, rate |-> 24000]

\* C12 as stated: the duration text of the example clip is "2:00".
C12_TwoMinutes ==
    (pc = "measured" /\ clip = ExampleClip) => duration_str = <<"2", ":", "0", "0">>

\* C12 as the code has it: 96000 bytes are 48000 samples, two seconds at
\* 24000 Hz, and the duration text is "0:02".
C12_TwoSeconds ==
    (pc = "measured" /\ clip = ExampleClip) => duration_str = <<"0", ":", "0", "2">>

C12_Witness ==
    /\ pc = "measured"
    /\ clip = ExampleClip
    /\ duration_str = <<"0", ":", "0", "2">>

\* the speech configuration is the one the flag asks for
SpeechModeMatchesFlag ==
    ClientBuilt =>
        IF USE_VERTEX_AI
        THEN /\ speech_config.kind = "voice_config"
             /\ Len(speech_config.voices) = 1
             /\ speech_config.voices[1].voice_name = "Kore"
             /\ speech_config.voices[1].speaker = None
        ELSE /\ speech_config.kind = "multi_speaker_voice_config"
             /\ Len(speech_config.voices) = 2
             /\ speech_config.voices[1] = [speaker |-> "Host A", voice_name |-> "Kore"]
             /\ speech_config.voices[2] = [speaker |-> "Host B", voice_name |-> "Puck"]
             /\ speech_config.voices[1].voice_name # speech_config.voices[2].voice_name

\* within one invocation the configuration, once built, stays as built
SpeechModeKept ==
    (ClientBuilt /\ runs' = runs) => speech_config' = speech_config

\* C13: the speech configuration depends on USE_VERTEX_AI alone: set, it is
\* the single voice "Kore" with no multi-speaker part; unset, it is the two
\* speakers "Host A" and "Host B" with the voices "Kore" and "Puck"; and an
\* invocation keeps the one it built.
C13_SpeechModeFromFlag ==
    /\ []SpeechModeMatchesFlag
    /\ [][SpeechModeKept]_vars

C13_Witness ==
    /\ USE_VERTEX_AI
    /\ pc = "returned"
    /\ result.status = "success"
    /\ speech_config.kind = "voice_config"
    /\ Len(calls) = 1

\* C14: in every invocation the agent's instruction is the dialogue template
\* (with the labels "Host A" and "Host B") exactly when the speech
\* configuration built for the synthesis is the two-speaker one.
C14_TemplateMatchesVoices ==
    ClientBuilt =>
        /\ (AUDIO_OVERVIEW_INSTRUCTION.style = "dialogue")
               <=> (speech_config.kind = "multi_speaker_voice_config")
        /\ (AUDIO_OVERVIEW_INSTRUCTION.style = "narrative")
               <=> (speech_config.kind = "voice_config")
        /\ \A i \in 1..Len(speech_config.voices) :
               speech_config.voices[i].speaker # None =>
                   AUDIO_OVERVIEW_INSTRUCTION.labels[i] = speech_config.voices[i].speaker

C14_Witness ==
    /\ ClientBuilt
    /\ pc = "returned"
    /\ AUDIO_OVERVIEW_INSTRUCTION = InstructionSingleSpeaker
    /\ speech_config = SingleSpeakerConfig

\* at most three calls, each one after the first preceded by a transient failure
AttemptsBounded ==
    /\ attempt_number <= StopAttempts
    /\ Len(calls) <= StopAttempts
    /\ Len(calls) <= attempt_number
    /\ \A i \in 1..(Len(calls) - 1) : calls[i].outcome = Transient

\* within an invocation the attempt counter never goes down, and it goes up
\* only after a call that failed with the transient error
AttemptsOnlyGrow ==
    runs' = runs =>
        /\ attempt_number' >= attempt_number
        /\ attempt_number' > attempt_number =>
            /\ attempt_number' = attempt_number + 1
            /\ Len(calls) = attempt_number
            /\ calls[attempt_number].outcome = Transient

\* C15: the attempt counter only increases, at most three calls are made, a
\* further call is made only after a ServerError, and generate_with_retry
\* always comes to an end, with a value or with an exception.
C15_RetryBounded ==
    /\ []AttemptsBounded
    /\ [][AttemptsOnlyGrow]_vars
    /\ ((pc = "attempt") ~> RetryLeft)

C15_Witness ==
    /\ plan.failures = MaxFailures
    /\ RetryLeft
    /\ attempt_number = StopAttempts
    /\ Len(calls) = StopAttempts
    /\ Len(sleeps) = StopAttempts - 1

\* min(2 * 2^(a-1), 30) for the sleeps the policy can reach
Backoff(a) == IF a = 1 THEN 2 ELSE IF a = 2 THEN 4 ELSE IF a = 3 THEN 8
              ELSE IF a = 4 THEN 16 ELSE 30

\* C16: the sleep after the a-th transient failure is min(2 * 2^(a-1), 30),
\* that is 2 and then 4; no sleep is longer than 30; and the third failed
\* attempt is followed by no sleep.
C16_BackoffSchedule ==
    /\ \A a \in 1..Len(sleeps) :
        /\ sleeps[a] = Backoff(a)
        /\ sleeps[a] <= 30
        /\ calls[a].outcome = Transient
    /\ Len(sleeps) <= StopAttempts - 1
    /\ RetryLeft => Len(sleeps) = Len(calls) - 1

C16_Witness ==
    /\ AlwaysTransient
    /\ pc = "returned"
    /\ Len(calls) = 3
    /\ sleeps = <<2, 4>>

\* "data:audio/wav;base64,"
WavUriPrefix ==
    <<"d", "a", "t", "a", ":", "a", "u", "d", "i", "o", "/", "w", "a", "v", ";",
      "b", "a", "s", "e", "6", "4", ",">>

\* the session state holds the data URI of this invocation's container and
\* its duration text
SideChannelWritten ==
    /\ state["audio_overview_base64"].present
    /\ LET uri == state["audio_overview_base64"].val
       IN /\ Len(uri) > Len(WavUriPrefix)
          /\ SubSeq(uri, 1, Len(WavUriPrefix)) = WavUriPrefix
          /\ B64Decode(SubSeq(uri, Len(WavUriPrefix) + 1, Len(uri))) = wav.val
    /\ state["audio_overview_duration"] = Some(duration_str)

\* C17 as stated: every invocation that returns status "success" has written
\* the data URI of the container and the duration text into the session state.
C17_EverySuccessWritesState ==
    (pc = "returned" /\ result.status = "success") => SideChannelWritten

\* C17 as the code has it: an invocation that returns status "success" with
\* artifact_saved = TRUE has written both; the fallback success
\* (artifact_saved = FALSE) carries the audio in the result instead.
C17_SavedSuccessWritesState ==
    (pc = "returned" /\ result.status = "success") =>
        IF result.artifact_saved
        THEN SideChannelWritten
        ELSE /\ B64Decode(result.audio_data) = wav.val
             /\ save_outcome = "failed" => state = before.state

C17_Witness ==
    /\ pc = "returned"
    /\ result.status = "success"
    /\ result.artifact_saved
    /\ SideChannelWritten
    /\ ~before.state["audio_overview_base64"].present

\* a stage is started only with the stage before it completed successfully
StagesInOrder ==
    \A i \in 2..Len(Stages) :
        stage[Stages[i]] # "pending" => stage[Stages[i - 1]] = "succeeded"

\* with stage i failed, no later stage and no fan-out member has been started,
\* and the runner has surfaced exactly one error, naming stage i
FailureHalts ==
    \A i \in 1..Len(Stages) :
        stage[Stages[i]] = "failed" =>
            /\ \A j \in (i + 1)..Len(Stages) : stage[Stages[j]] = "pending"
            /\ \A m \in Members : member[m] = "pending"
            /\ ~joined.done
            /\ Len(errors) = 1
            /\ errors[1].stage = Stages[i]

\* an error is surfaced only by a failed stage
ErrorMeansFailure ==
    errors # <<>> => \E s \in StageNames : stage[s] = "failed"

\* once the error is surfaced nothing of the pipeline moves again
HaltIsFinal ==
    errors # <<>> => UNCHANGED <<stage, member, errors, state, joined>>

\* C18: the runner moves from stage i to stage i+1 only after stage i completed
\* successfully; when stage i fails no later stage and no fan-out member is
\* ever started, and the run ends in one terminal error naming stage i.
C18_FailureHaltsPipeline ==
    /\ [](StagesInOrder /\ FailureHalts /\ ErrorMeansFailure)
    /\ [][HaltIsFinal]_vars

C18_Witness ==
    /\ stage["intake"] = "succeeded"
    /\ stage["market_research"] = "succeeded"
    /\ stage["competitor_mapping"] = "failed"
    /\ stage["gap_analysis"] = "pending"
    /\ Len(errors) = 1
    /\ errors[1].stage = "competitor_mapping"

ActiveStages == {s \in StageNames : stage[s] = "active"}

ActiveMembers == {m \in Members : member[m] = "running"}

\* C19: two of the five sequential stages are never active together, and no
\* fan-out member is active while a sequential stage is; more than one active
\* stage happens only among the members of the fan-out.
C19_OnlyFanOutOverlaps ==
    /\ Cardinality(ActiveStages) <= 1
    /\ ActiveStages # {} => ActiveMembers = {}
    /\ Cardinality(ActiveStages) + Cardinality(ActiveMembers) > 1 =>
           /\ ActiveStages = {}
           /\ ActiveMembers \subseteq Members

C19_Witness ==
    /\ ActiveStages = {}
    /\ ActiveMembers = Members
    /\ pc = "attempt"
    /\ view["report"].read

InInvocation == pc \in {"attempt", "sleep", "parse", "saving", "returned"}

\* every stored version carries the fixed name, and an invocation has added at
\* most one version
PublishedOnceByName ==
    /\ \A v \in 1..Len(artifacts) : artifacts[v].filename = ArtifactFilename
    /\ InInvocation =>
           /\ Len(artifacts) - before.versions \in {0, 1}
           /\ Len(artifacts) > before.versions <=> save_outcome = "stored"

\* a result that reports a version reports the one save_artifact returned: the
\* number of versions there were, so larger than every earlier number, and the
\* version stored under it holds this invocation's container
ReportedVersionIsAssigned ==
    (pc = "returned" /\ result.status = "success" /\ result.artifact_saved) =>
        /\ result.artifact_filename = ArtifactFilename
        /\ result.artifact_version = before.versions
        /\ result.artifact_version = Len(artifacts) - 1
        /\ artifacts[result.artifact_version + 1].data = wav.val

\* the store changes only by save_artifact adding one version after the
\* earlier ones, which stay as they are
VersionsOnlyAppended ==
    artifacts' # artifacts =>
        /\ pc = "saving"
        /\ Len(artifacts') = Len(artifacts) + 1
        /\ SubSeq(artifacts', 1, Len(artifacts)) = artifacts
        /\ artifacts'[Len(artifacts')].data = wav.val

InRange(score) == score >= 0 /\ score <= 100

\* C21: an overall_score outside 0..100 is rejected at construction with a
\* validation error and no object; a score in 0..100, the ends included, gives
\* an object whose score is the given one, never a clamped one.
C21_ScoreValidated ==
    built # NoObject =>
        IF InRange(candidate.overall_score)
        THEN /\ built.ok
             /\ built.val.schema = candidate.schema
             /\ built.val.overall_score = candidate.overall_score
        ELSE /\ ~built.ok
             /\ built.exc = "ValidationError"

C21_Witness ==
    /\ candidate.schema = "AlternativeLocation"
    /\ candidate.overall_score = 150
    /\ built # NoObject
    /\ ~built.ok

AudioStageEnded == member["audio"] \in Terminal

\* a stored value that is a mapping with a status field
IsStatusMapping(v) == Len(v) = 2 /\ v[1] = "status"

\* the value under audio_overview_result is the agent's text; were it a
\* mapping, its status would have to be "success"
ResultKeyNeverFailure ==
    state["audio_overview_result"].present =>
        \/ state["audio_overview_result"].val = <<"final response">>
        \/ /\ IsStatusMapping(state["audio_overview_result"].val)
           /\ state["audio_overview_result"].val[2] = "success"

InSynthesis == member["audio"] = "running" /\ pc \in {"attempt", "sleep"}

\* C23: the speech-synthesis call and the backoff sleeps between its retries
\* are suspension points: while the audio member waits on synthesis or
\* sleeps, a running report or infographic member can take a step.
C23_SynthesisSuspends ==
    InSynthesis =>
        \A m \in Siblings :
            member[m] = "running" =>
                ENABLED (MemberRead(m) \/ \E ok \in BOOLEAN : SiblingEnds(m, ok))

C23_Witness ==
    /\ InSynthesis
    /\ pc = "sleep"
    /\ member["report"] = "running"
    /\ member["infographic"] = "running"
    /\ ~ENABLED MemberRead("report")

\* the minutes and seconds fields of a duration text
MinutesField(d) == SplitHead(d, <<":">>)

SecondsField(d) == SubSeq(d, Len(MinutesField(d)) + 2, Len(d))

\* the whole seconds a duration text stands for
SecondsShown(d) == 60 * DigitsToInt(MinutesField(d)) + DigitsToInt(SecondsField(d))

\* C24: for payload length L and positive rate r, with d = L / (r * 2), the
\* duration text is floor(d / 60), a colon, and floor(d mod 60) in exactly two
\* digits; the seconds field is in 00..59 and fractions of a second are cut
\* off, never rounded up.
C24_DurationFormat ==
    pc = "measured" =>
        /\ Len(MinutesField(duration_str)) >= 1
        /\ \A i \in 1..Len(MinutesField(duration_str)) : IsDigit(duration_str[i])
        /\ MinutesField(duration_str) = IntToStr(DigitsToInt(MinutesField(duration_str)))
        /\ duration_str[Len(MinutesField(duration_str)) + 1] = ":"
        /\ Len(SecondsField(duration_str)) = 2
        /\ \A i \in 1..2 : IsDigit(SecondsField(duration_str)[i])
        /\ DigitsToInt(SecondsField(duration_str)) \in 0..59
        /\ SecondsShown(duration_str) * (clip.rate * 2) <= clip.bytes
        /\ clip.bytes < (SecondsShown(duration_str) + 1) * (clip.rate * 2)

\* one byte short of a minute at 24000 Hz: "0:59", not "1:00"
C24_Witness ==
    /\ pc = "measured"
    /\ clip = [bytes |-> 2879999, rate |-> 24000]
    /\ duration_str = <<"0", ":", "5", "9">>

\* genai.Client() raised
ClientFailed == ~ClientBuilt

\* generate_with_retry raised: RetryError after the third ServerError, or
\* the error that is not a ServerError
SynthesisFailed == RetryLeft /\ retry_out # LeftWithValue

\* reading response.candidates[0].content.parts raised
ReadFailed == retry_out = LeftWithValue /\ ~FirstAudio(response).ok

\* there was an audio part and wrapping it raised
EncodingFailed == retry_out = LeftWithValue /\ HasAudioPart(response) /\ wav = Absent

\* C25: whatever is raised by client construction, by the speech-synthesis
\* call (ServerError through the exhausted retries, or another error), by
\* reading the response parts or by the container encoding, the invocation
\* returns a mapping with status "error" and an error_message and raises
\* nothing to its caller.
C25_FailuresBecomeResults ==
    (pc = "returned" /\ (ClientFailed \/ SynthesisFailed \/ ReadFailed \/ EncodingFailed)) =>
        /\ escaped = None
        /\ result.status = "error"
        /\ "error_message" \in DOMAIN result
        /\ IsText(result.error_message)
        /\ result.error_message[1] = "Failed to generate audio overview: "

C25_Witness ==
    /\ pc = "returned"
    /\ EncodingFailed
    /\ result = ErrorResult("wave.Error")
    /\ escaped = None

\* the artifact store took this invocation's container
StoreAccepted == Len(artifacts) = before.versions + 1 /\ save_outcome = "stored"

\* C26: a result reports artifact_saved = TRUE exactly when the artifact
\* store accepted the container in this invocation, also when a write to the
\* session state after the save fails.
C26_SavedFlagAccurate ==
    (pc = "returned" /\ "artifact_saved" \in DOMAIN result) =>
        (result.artifact_saved <=> StoreAccepted)

\* the container is stored as a new version and the result says it is not
C26_Witness ==
    /\ pc = "returned"
    /\ StoreAccepted
    /\ artifacts[Len(artifacts)].data = wav.val
    /\ result.status = "success"
    /\ ~result.artifact_saved
    /\ state["audio_overview_base64"].present
    /\ ~state["audio_overview_duration"].present

FirstRateAt(m) == CHOOSE j \in RateOccurs(m) : \A x \in RateOccurs(m) : j <= x

\* the rate read from text t: the integer it spells, or 24000
RateOf(t) ==
    IF PyInt(t).ok THEN IntRec(PyInt(t).neg, PyInt(t).digits) ELSE DefaultRate

\* the MIME string the parser is given
ParsedMime == RawMime(tts)

\* C28 as stated: the rate is read from the text after the first "rate=" up
\* to the next ";", whatever that text holds.
C28_FirstRateToSemicolon ==
    AudioProcessed =>
        ParseSampleRate(ParsedMime) =
            IF RateOccurs(ParsedMime) = {} THEN DefaultRate
            ELSE RateOf(ValueAt(ParsedMime, FirstRateAt(ParsedMime)))

\* C28 as the code has it: the text after the first "rate=" ends at the next
\* ";" or at the next "rate=", whichever comes first; text that is no integer
\* gives 24000 even with a well-formed rate=<n> later, and a name that only
\* ends in "rate" (bitrate=128 before rate=24000) decides the result.
C28_FirstRateToSemicolonOrKey ==
    AudioProcessed =>
        /\ ParseSampleRate(ParsedMime) =
               IF RateOccurs(ParsedMime) = {} THEN DefaultRate
               ELSE RateOf(FirstRateText(ParsedMime))
        /\ RateInRange(ParseSampleRate(ParsedMime)) =>
               Declares(wav, ParseSampleRate(ParsedMime))

\* audio/L16;bitrate=128;rate=24000 is wrapped at 128 Hz
C28_Witness ==
    /\ pc = "saving"
    /\ AudioProcessed
    /\ ParsedMime = BaseMime \o <<";", "b", "i", "t", "r", "a", "t", "e", "=", "1", "2", "8",
                                  ";", "r", "a", "t", "e", "=", "2", "4", "0", "0", "0">>
    /\ DeclaredRate(wav.val) = 128

\* the service answered with an audio part and the invocation has gone past it
AudioAnswered ==
    /\ pc \in {"saving", "returned"}
    /\ retry_out = LeftWithValue
    /\ HasAudioPart(response)

\* no container, an "error" result from the writer's refusal of the rate,
\* nothing raised to the caller, nothing saved, session state untouched
RateRejected ==
    /\ pc = "returned"
    /\ wav = Absent
    /\ result = ErrorResult("wave.Error")
    /\ escaped = None
    /\ save_outcome = "none"
    /\ Len(artifacts) = before.versions
    /\ \A k \in AudioKeys : state[k] = before.state[k]

\* C29 as stated: when the MIME string carries rate=<n> with an integer
\* n <= 0 anywhere, no container is produced, the result has status "error",
\* no artifact is saved and no audio key is written.
C29_AnyNonPositiveRate ==
    (AudioAnswered /\ \E r \in RatesIn(ParsedMime) : ~IsPositive(r)) => RateRejected

\* C29 as the code has it: when the text after the first "rate=" is an
\* integer n <= 0, no container is produced (neither at n nor at 24000), the
\* invocation returns status "error" from wave.Error, not from a division by
\* zero, no artifact is saved and no audio key is written into session state.
C29_NonPositiveRateRejected ==
    (/\ AudioAnswered
     /\ RateOccurs(ParsedMime) # {}
     /\ PyInt(FirstRateText(ParsedMime)).ok
     /\ ~IsPositive(PyInt(FirstRateText(ParsedMime)))) => RateRejected

\* audio/L16;rate=-1 with PCM bytes has been refused
C29_Witness ==
    /\ pc = "returned"
    /\ AudioAnswered
    /\ tts.data.present
    /\ tts.data.val # <<>>
    /\ ParsedMime = BaseMime \o <<";", "r", "a", "t", "e", "=", "-", "1">>
    /\ result = ErrorResult("wave.Error")

====
